---------------------------- MODULE Spec2Model ----------------------------
(***************************************************************************)
(* A model of src/template.rs of cargo-generate: the template engine with  *)
(* its case filters (engine), the construction of the variable set         *)
(* (substitute) and the rendering walk over a template tree (walk_dir).    *)
(*                                                                         *)
(* Text (file bodies and path strings alike) is a sequence of atoms.  An   *)
(* atom is a run of literal characters, the path separator "/", a liquid   *)
(* expression "{{ ... }}" or an unterminated "{{".  The engine and the     *)
(* filesystem work on these sequences the way the code works on strings.   *)
(***************************************************************************)
EXTENDS Naturals, Sequences, FiniteSets, TLC

VARIABLES
    phase,            \* "start" | "substituted" | "walking" | "done"
    name,             \* the ProjectName's user input
    force,            \* the force flag given to substitute
    authorsRes,       \* what authors::get_authors() returned
    template,         \* the liquid Object substitute built: [ok, vars]
    project_dir,      \* the root handed to walk_dir
    template_config,  \* Option<TemplateConfig> handed to walk_dir
    engine,           \* the filter registry of the parser engine() built
    files,            \* the filesystem's regular files: path -> [id, body]
    dirs,             \* the filesystem's directories (a set of paths)
    files0,           \* the regular files as they were before the walk
    stack,            \* WalkDir's stack of open directories: [dir, todo]
    result,           \* what the running function returned: [status, kind, errno, annot]
    cur,              \* the path of the entry the loop body last worked on
    msgs,             \* the messages given to pbar.set_message, in order
    finished,         \* how many times pbar.finish_and_clear was called
    ops               \* the filesystem calls walk_dir made, in order

vars == <<phase, name, force, authorsRes, template, project_dir, template_config,
          engine, files, dirs, files0, stack, result, cur, msgs, finished, ops>>

(***************************************************************************)
(* Bounds of the model.                                                    *)
(***************************************************************************)
\* The largest number of regular files in the template tree before the walk.
MaxFiles == 2

Max(S) == CHOOSE x \in S : \A y \in S : y <= x

(***************************************************************************)
(* Case conversion (the heck crate, used by the filters and by             *)
(* ProjectName).  Words is the word-boundary splitter on the strings of    *)
(* the model; the words come out lower-cased.                              *)
(***************************************************************************)
Words(s) ==
    CASE s = "MyProject"  -> <<"my", "project">>
      [] s = "my-project" -> <<"my", "project">>
      [] s = "my_project" -> <<"my", "project">>
      [] s = "my-app"     -> <<"my", "app">>
      [] s = "my_app"     -> <<"my", "app">>
      [] s = "MyApp"      -> <<"my", "app">>
      [] s = "app"        -> <<"app">>
      [] s = "App"        -> <<"app">>
      [] s = ".gitignore" -> <<"gitignore">>
      [] s = "gitignore"  -> <<"gitignore">>
      [] s = "Gitignore"  -> <<"gitignore">>
      [] OTHER            -> <<s>>

Capitalized(w) ==
    CASE w = "my"        -> "My"
      [] w = "project"   -> "Project"
      [] w = "app"       -> "App"
      [] w = "gitignore" -> "Gitignore"
      [] OTHER           -> w

RECURSIVE JoinWords(_, _)
JoinWords(ws, sep) ==
    IF ws = <<>> THEN ""
    ELSE IF Len(ws) = 1 THEN ws[1]
    ELSE ws[1] \o sep \o JoinWords(Tail(ws), sep)

to_kebab_case(s) == JoinWords(Words(s), "-")
to_snake_case(s) == JoinWords(Words(s), "_")
to_camel_case(s) == JoinWords([i \in 1..Len(Words(s)) |-> Capitalized(Words(s)[i])], "")

(***************************************************************************)
(* engine(): a ParserBuilder that registers five filters, each under the   *)
(* name its FilterReflection gives (the name = "..." of its #[filter]      *)
(* attribute).  The registry is a map from name to filter; registering     *)
(* under a name already present replaces the earlier filter.               *)
(***************************************************************************)
DateFilterParser       == [name |-> "date",       impl |-> "date"]
CapitalizeFilterParser == [name |-> "capitalize", impl |-> "capitalize"]
KebabCaseFilterParser  == [name |-> "kebab_case", impl |-> "to_kebab_case"]
PascalCaseFilterParser == [name |-> "kebab_case", impl |-> "to_camel_case"]
SnakeCaseFilterParser  == [name |-> "kebab_case", impl |-> "to_snake_case"]

NoFilters == [n \in {} |-> ""]

RegisterFilter(reg, f) ==
    [n \in DOMAIN reg \cup {f.name} |-> IF n = f.name THEN f.impl ELSE reg[n]]

RECURSIVE RegisterAll(_, _)
RegisterAll(reg, fs) ==
    IF fs = <<>> THEN reg ELSE RegisterAll(RegisterFilter(reg, Head(fs)), Tail(fs))

Engine ==
    RegisterAll(NoFilters, <<DateFilterParser, CapitalizeFilterParser,
                             KebabCaseFilterParser, PascalCaseFilterParser,
                             SnakeCaseFilterParser>>)

\* Filter::evaluate of the three case filters.
Evaluate(impl, value) ==
    CASE impl = "to_kebab_case" -> to_kebab_case(value)
      [] impl = "to_camel_case" -> to_camel_case(value)
      [] impl = "to_snake_case" -> to_snake_case(value)
      [] OTHER                  -> value

(***************************************************************************)
(* The liquid dialect on atoms.  ExprOf is the lexer: the variable and the *)
(* filter name an expression atom holds.                                   *)
(***************************************************************************)
ExprAtoms == {"{{project-name}}", "{{crate_name}}", "{{crate_name | snake_case}}",
              "{{crate_name | pascal_case}}", "{{crate_name | kebab_case}}",
              "{{license}}"}

Unterminated == "{{"

ExprOf(a) ==
    CASE a = "{{project-name}}"             -> [var |-> "project-name", filter |-> ""]
      [] a = "{{crate_name}}"               -> [var |-> "crate_name",   filter |-> ""]
      [] a = "{{crate_name | snake_case}}"  -> [var |-> "crate_name",   filter |-> "snake_case"]
      [] a = "{{crate_name | pascal_case}}" -> [var |-> "crate_name",   filter |-> "pascal_case"]
      [] a = "{{crate_name | kebab_case}}"  -> [var |-> "crate_name",   filter |-> "kebab_case"]
      [] a = "{{license}}"                  -> [var |-> "license",      filter |-> ""]

\* Parser::parse: fails on malformed syntax and on a filter the registry lacks.
ParseOk(reg, text) ==
    \A i \in 1..Len(text) :
        /\ text[i] # Unterminated
        /\ text[i] \in ExprAtoms =>
              (ExprOf(text[i]).filter = "" \/ ExprOf(text[i]).filter \in DOMAIN reg)

\* Template::render: fails on a variable the object lacks.
RenderOk(text, vs) ==
    \A i \in 1..Len(text) : text[i] \in ExprAtoms => ExprOf(text[i]).var \in DOMAIN vs

RenderAtom(reg, a, vs) ==
    IF a \in ExprAtoms
    THEN IF ExprOf(a).filter = "" THEN vs[ExprOf(a).var]
         ELSE Evaluate(reg[ExprOf(a).filter], vs[ExprOf(a).var])
    ELSE a

Render(reg, text, vs) == [i \in 1..Len(text) |-> RenderAtom(reg, text[i], vs)]

(***************************************************************************)
(* ProjectName (crate::projectname) and get_authors (crate::authors).      *)
(***************************************************************************)
raw(n)        == n
kebab_case(n) == to_kebab_case(n)
snake_case(n) == to_snake_case(n)

Names == {"MyProject", "my-app", "app", ".gitignore"}

AuthorResults ==
    { [ok |-> TRUE,  username |-> "jo", authors |-> "Jo <jo@example.org>"],
      [ok |-> FALSE, username |-> "",   authors |-> ""] }

NoTemplate == [ok |-> FALSE, vars |-> [k \in {} |-> ""]]

Ok == [status |-> "Ok", kind |-> "", errno |-> "", annot |-> <<>>]
Running == [status |-> "Running", kind |-> "", errno |-> "", annot |-> <<>>]
Err(kind, errno, annot) == [status |-> "Err", kind |-> kind, errno |-> errno, annot |-> annot]

\* The error of a call that names no path.
NoPath == <<"(no path)">>

\* A substitute that normalizes project-name whatever the force flag says.
substitute_IgnoresForce(n, f, a) ==
    IF ~a.ok
    THEN [res |-> Err("AuthorsError", "", NoPath), template |-> NoTemplate]
    ELSE [res |-> Ok,
          template |->
            [ok |-> TRUE,
             vars |-> [k \in {"project-name", "crate_name", "authors", "username"} |->
                         CASE k = "project-name" -> kebab_case(n)
                           [] k = "crate_name"   -> snake_case(n)
                           [] k = "authors"      -> a.authors
                           [] k = "username"     -> a.username]]]

\* substitute(name, force), given what get_authors() returns.
substitute(n, f, a) ==
    LET project_name == IF f THEN raw(n) ELSE kebab_case(n)
    IN  IF ~a.ok
        THEN [res |-> Err("AuthorsError", "", NoPath), template |-> NoTemplate]
        ELSE [res |-> Ok,
              template |->
                [ok |-> TRUE,
                 vars |-> [k \in {"project-name", "crate_name", "authors", "username"} |->
                             CASE k = "project-name" -> project_name
                               [] k = "crate_name"   -> snake_case(n)
                               [] k = "authors"      -> a.authors
                               [] k = "username"     -> a.username]]]


(***************************************************************************)
(* Paths.  A path is the text of its string: names separated by the atom   *)
(* "/".  Literal names are split into atoms where a rendered name splits   *)
(* (app.rs is <<"app", ".rs">>), so equal strings are equal sequences.     *)
(***************************************************************************)
Sep == "/"

\* PathBuf::join / the path WalkDir gives a child.
Join(dir, rel) == dir \o <<Sep>> \o rel

\* Path::parent.
Parent(p) ==
    LET seps == {i \in 1..Len(p) : p[i] = Sep}
    IN  IF seps = {} THEN <<>> ELSE SubSeq(p, 1, Max(seps) - 1)

RECURSIVE Ancestors(_)
Ancestors(p) == IF p = <<>> THEN {<<>>} ELSE {Parent(p)} \cup Ancestors(Parent(p))

\* Path::strip_prefix: every path WalkDir yields starts with the root it was given.
StripPrefix(p, root) == SubSeq(p, Len(root) + 2, Len(p))

\* The atoms of the model whose characters contain ".git".
GitAtoms == {".git", ".gitignore", "r.git"}

\* fn is_dir: the entry's file type is a directory.
is_dir(p, ds) == p \in ds

\* fn is_git_metadata: the path string contains ".git".
is_git_metadata(p) == \E i \in 1..Len(p) : p[i] \in GitAtoms

(***************************************************************************)
(* The filesystem: fs::read_dir, fs::write and fs::rename (rename(2)).     *)
(***************************************************************************)
Children(fs, ds, d) == {p \in (DOMAIN fs) \cup ds : p # <<>> /\ Parent(p) = d}

FsWrite(fs, p, body) == [fs EXCEPT ![p].body = body]

\* rename(2): the directory of the new path must exist, a directory is not
\* replaced by a file, and an existing file at the new path is replaced.
FsRename(fs, ds, src, dst) ==
    IF Parent(dst) \notin ds THEN [ok |-> FALSE, errno |-> "ENOENT", files |-> fs]
    ELSE IF dst \in ds THEN [ok |-> FALSE, errno |-> "EISDIR", files |-> fs]
    ELSE IF src = dst THEN [ok |-> TRUE, errno |-> "", files |-> fs]
    ELSE [ok |-> TRUE, errno |-> "",
          files |-> [p \in ((DOMAIN fs) \ {src}) \cup {dst} |->
                        IF p = dst THEN fs[src] ELSE fs[p]]]

(***************************************************************************)
(* The inputs of a run: the template tree, the root, the configuration.    *)
(***************************************************************************)
TemplateFiles ==
    { [id |-> "readme",  rel |-> <<"{{project-name}}", Sep, "README.md">>,
                         body |-> <<"# ", "{{crate_name}}">>],
      [id |-> "main",    rel |-> <<"my-app", Sep, "main.rs">>,
                         body |-> <<"fn main">>],
      [id |-> "pn_rs",   rel |-> <<"{{project-name}}", ".rs">>,
                         body |-> <<"// ", "{{project-name}}">>],
      [id |-> "cn_rs",   rel |-> <<"{{crate_name}}", ".rs">>,
                         body |-> <<"mod ", "{{crate_name}}">>],
      [id |-> "app_rs",  rel |-> <<"app", ".rs">>,
                         body |-> <<"pub fn x">>],
      [id |-> "cargo",   rel |-> <<"Cargo.toml.liquid">>,
                         body |-> <<"name = \"", "{{crate_name | snake_case}}", "\"">>],
      [id |-> "gitcfg",  rel |-> <<".git", Sep, "config">>,
                         body |-> <<"[core] ", "{{crate_name}}">>],
      [id |-> "gitign",  rel |-> <<".gitignore">>,
                         body |-> <<"target">>],
      [id |-> "logo",    rel |-> <<"assets", Sep, "{{crate_name}}", ".svg">>,
                         body |-> <<"<svg ", "{{crate_name}}", ">">>],
      [id |-> "bin",     rel |-> <<"{{project-name}}">>,
                         body |-> <<"#!/bin/sh">>],
      [id |-> "notes",   rel |-> <<"notes.md">>,
                         body |-> <<"see ", Unterminated>>],
      [id |-> "badname", rel |-> <<Unterminated, "x.txt">>,
                         body |-> <<"x">>],
      [id |-> "license", rel |-> <<"LICENSE">>,
                         body |-> <<"{{license}}">>] }

Trees == {t \in SUBSET TemplateFiles : Cardinality(t) \in 1..MaxFiles}

Roots == { <<Sep, "w">>, <<Sep, "{{project-name}}">>, <<Sep, "r.git">> }

\* Option<TemplateConfig>: None, a configuration that excludes two paths, and
\* one Matcher::new rejects.
NoConfig      == [kind |-> "none",    exclude |-> {}]
ExcludeConfig == [kind |-> "some",
                  exclude |-> { <<"assets", Sep, "{{crate_name}}", ".svg">>,
                                <<"{{project-name}}", ".rs">> }]
InvalidConfig == [kind |-> "invalid", exclude |-> {}]
Configs == {NoConfig, ExcludeConfig, InvalidConfig}

\* Matcher::should_include: the default matcher includes every path.
should_include(cfg, rel) == rel \notin cfg.exclude

\* The I/O call of one loop iteration that the environment makes fail.
IOFaults == {"none", "read", "write", "rename"}

Init ==
    /\ phase = "start"
    /\ name \in Names
    /\ force \in BOOLEAN
    /\ authorsRes = [ok |-> FALSE, username |-> "", authors |-> ""]
    /\ template = NoTemplate
    /\ project_dir \in Roots
    /\ template_config \in Configs
    /\ engine = NoFilters
    /\ \E t \in Trees :
          /\ files = [p \in {Join(project_dir, f.rel) : f \in t} |->
                        LET f == CHOOSE g \in t : Join(project_dir, g.rel) = p
                        IN  [id |-> f.id, body |-> f.body]]
          /\ dirs = UNION {Ancestors(Join(project_dir, f.rel)) : f \in t}
    /\ files0 = files
    /\ stack = <<>>
    /\ result = Running
    /\ cur = <<>>
    /\ msgs = <<>>
    /\ finished = 0
    /\ ops = <<>>

(***************************************************************************)
(* main: substitute(name, force), then walk_dir with the object it built.  *)
(***************************************************************************)
Substitute ==
    /\ phase = "start"
    /\ \E a \in AuthorResults :
          LET s == substitute(name, force, a)
          IN  /\ authorsRes' = a
              /\ template' = s.template
              /\ result' = s.res
              /\ phase' = IF s.res.status = "Err" THEN "done" ELSE "substituted"
    /\ UNCHANGED <<name, force, project_dir, template_config, engine, files, dirs,
                   files0, stack, cur, msgs, finished, ops>>

(***************************************************************************)
(* walk_dir.                                                               *)
(***************************************************************************)
\* A walk that carries on after an error.
PhaseAfter_Continues(res) == "walking"

\* The `?` after each fallible call: an error ends walk_dir there.
PhaseAfter(res) == IF res.status = "Err" THEN "done" ELSE "walking"

\* WalkDir keeps a stack of open directories.  A directory is opened when its
\* entry is reached, and its names are read before the next loop body runs
\* (one batch, for trees of this size): `todo` holds those not yet yielded, in
\* no particular order.  The iterator drops the directories read to the end.
RECURSIVE Normalize(_)
Normalize(st) ==
    IF st = <<>> THEN <<>>
    ELSE IF st[Len(st)].todo = {} THEN Normalize(SubSeq(st, 1, Len(st) - 1))
    ELSE st

\* The stack once its top directory has yielded entry e.
Yielded(st, e) == [st EXCEPT ![Len(st)].todo = @ \ {e}]

\* Lines 139-144, and the first entry WalkDir yields: the root itself, a directory.
WalkStart ==
    /\ phase = "substituted"
    /\ engine' = Engine
    /\ IF template_config.kind = "invalid"
       THEN /\ result' = Err("MatcherError", "", NoPath)
            /\ phase' = "done"
            /\ stack' = stack
       ELSE /\ result' = Running
            /\ phase' = "walking"
            /\ stack' = <<[dir |-> project_dir, todo |-> Children(files, dirs, project_dir)]>>
    /\ UNCHANGED <<name, force, authorsRes, template, project_dir, template_config,
                   files, dirs, files0, cur, msgs, finished, ops>>

\* `let entry = entry?` fails: the walkdir error names the path it was reading.
WalkEnumFail ==
    /\ phase = "walking"
    /\ Normalize(stack) # <<>>
    /\ LET st == Normalize(stack)
       IN  \E e \in st[Len(st)].todo :
              /\ result' = Err("WalkDirError", "EIO", e)
              /\ phase' = PhaseAfter(result')
              /\ cur' = e
              /\ stack' = Yielded(st, e)
    /\ UNCHANGED <<name, force, authorsRes, template, project_dir, template_config,
                   engine, files, dirs, files0, msgs, finished, ops>>

\* The entry is a directory: WalkDir opens it, the loop body skips it.
WalkDirectory ==
    /\ phase = "walking"
    /\ Normalize(stack) # <<>>
    /\ LET st == Normalize(stack)
       IN  \E e \in st[Len(st)].todo :
              /\ is_dir(e, dirs)
              /\ stack' = Append(Yielded(st, e),
                                 [dir |-> e, todo |-> Children(files, dirs, e)])
    /\ UNCHANGED <<phase, name, force, authorsRes, template, project_dir, template_config,
                   engine, files, dirs, files0, result, cur, msgs, finished, ops>>

\* The entry is a file whose path contains ".git": the loop body skips it.
WalkGitSkip ==
    /\ phase = "walking"
    /\ Normalize(stack) # <<>>
    /\ LET st == Normalize(stack)
       IN  \E e \in st[Len(st)].todo :
              /\ ~is_dir(e, dirs)
              /\ is_git_metadata(e)
              /\ stack' = Yielded(st, e)
    /\ UNCHANGED <<phase, name, force, authorsRes, template, project_dir, template_config,
                   engine, files, dirs, files0, result, cur, msgs, finished, ops>>

FsOp(op, id, src, dst, ok, body) ==
    [op |-> op, id |-> id, src |-> src, dst |-> dst, ok |-> ok, body |-> body]

\* Lines 156-177: parse_file, render, fs::write.
RenderContents(filename, fault) ==
    LET id   == files[filename].id
        body == files[filename].body
        read == FsOp("read", id, filename, filename, fault # "read", <<>>)
        new_contents == Render(engine, body, template.vars)
    IN  IF fault = "read"
        THEN [res |-> Err("IOError", "EIO", filename), files |-> files, ops |-> <<read>>]
        ELSE IF ~ParseOk(engine, body)
        THEN [res |-> Err("SyntaxError", "", NoPath), files |-> files, ops |-> <<read>>]
        ELSE IF ~RenderOk(body, template.vars)
        THEN [res |-> Err("RenderError", "", filename), files |-> files, ops |-> <<read>>]
        ELSE IF fault = "write"
        THEN [res |-> Err("IOError", "EIO", filename), files |-> files,
              ops |-> <<read, FsOp("write", id, filename, filename, FALSE, new_contents)>>]
        ELSE [res |-> Ok, files |-> FsWrite(files, filename, new_contents),
              ops |-> <<read, FsOp("write", id, filename, filename, TRUE, new_contents)>>]

\* Lines 179-190: the path string is parsed and rendered, the file renamed.
RenameEntry(fs, filename, fault) ==
    LET id == fs[filename].id
        parsed_filename == Render(engine, filename, template.vars)
        r == IF fault = "rename" THEN [ok |-> FALSE, errno |-> "EIO", files |-> fs]
             ELSE FsRename(fs, dirs, filename, parsed_filename)
    IN  IF ~ParseOk(engine, filename)
        THEN [res |-> Err("SyntaxError", "", NoPath), files |-> fs, ops |-> <<>>]
        ELSE IF ~RenderOk(filename, template.vars)
        THEN [res |-> Err("RenderError", "", NoPath), files |-> fs, ops |-> <<>>]
        ELSE IF ~r.ok
        THEN [res |-> Err("IOError", r.errno, parsed_filename), files |-> fs,
              ops |-> <<FsOp("rename", id, filename, parsed_filename, FALSE, <<>>)>>]
        ELSE [res |-> Ok, files |-> r.files,
              ops |-> <<FsOp("rename", id, filename, parsed_filename, TRUE, <<>>)>>]

\* The loop body for a regular file outside ".git" paths (lines 152-190).
ProcessFile(filename, fault) ==
    LET relative_path == StripPrefix(filename, project_dir)
        c == IF should_include(template_config, relative_path)
             THEN RenderContents(filename, fault)
             ELSE [res |-> Ok, files |-> files, ops |-> <<>>]
        r == RenameEntry(c.files, filename, fault)
    IN  IF c.res.status = "Err" THEN c
        ELSE [res |-> r.res, files |-> r.files, ops |-> c.ops \o r.ops]

WalkFile ==
    /\ phase = "walking"
    /\ Normalize(stack) # <<>>
    /\ LET st == Normalize(stack)
       IN  \E e \in st[Len(st)].todo, fault \in IOFaults :
              /\ ~is_dir(e, dirs)
              /\ ~is_git_metadata(e)
              /\ LET o == ProcessFile(e, fault)
                 IN  /\ msgs' = Append(msgs, e)
                     /\ cur' = e
                     /\ files' = o.files
                     /\ ops' = ops \o o.ops
                     /\ result' = IF o.res.status = "Err" THEN o.res ELSE result
                     /\ phase' = PhaseAfter(o.res)
                     /\ stack' = Yielded(st, e)
    /\ UNCHANGED <<name, force, authorsRes, template, project_dir, template_config,
                   engine, dirs, files0, finished>>

\* Lines 193-194: the iterator is exhausted.
WalkFinish ==
    /\ phase = "walking"
    /\ Normalize(stack) = <<>>
    /\ finished' = finished + 1
    /\ result' = Ok
    /\ phase' = "done"
    /\ stack' = <<>>
    /\ UNCHANGED <<name, force, authorsRes, template, project_dir, template_config,
                   engine, files, dirs, files0, cur, msgs, ops>>

Next ==
    \/ Substitute
    \/ WalkStart
    \/ WalkEnumFail
    \/ WalkDirectory
    \/ WalkGitSkip
    \/ WalkFile
    \/ WalkFinish

Spec == Init /\ [][Next]_vars

(***************************************************************************)
(* Vocabulary of the properties.                                           *)
(***************************************************************************)
PlainRoot == <<Sep, "w">>

Range(s) == {s[i] : i \in 1..Len(s)}

Var(k) == template.vars[k]

\* walk_dir returned Ok.
WalkOk == phase = "done" /\ result.status = "Ok"

\* walk_dir returned an error raised inside its loop.
WalkErr ==
    /\ phase = "done"
    /\ result.status = "Err"
    /\ result.kind \notin {"AuthorsError", "MatcherError"}

\* The run's error, if any, is not an I/O failure the environment injected.
NoEnvFault == result.errno # "EIO"

\* The tree before the walk holds exactly the template files with these ids.
TreeIs(ids) == {files0[p].id : p \in DOMAIN files0} = ids

OpsOn(kind, id) == {i \in 1..Len(ops) : ops[i].op = kind /\ ops[i].id = id /\ ops[i].ok}

\* The files obtained from fs by the successful writes and renames of a log.
RECURSIVE Replay(_, _)
Replay(fs, log) ==
    IF log = <<>> THEN fs
    ELSE LET o == Head(log)
             nx == IF ~o.ok \/ o.op = "read" THEN fs
                   ELSE IF o.op = "write" THEN FsWrite(fs, o.src, o.body)
                   ELSE FsRename(fs, dirs, o.src, o.dst).files
         IN  Replay(nx, Tail(log))

(***************************************************************************)
(* C1.  Scenario A: the tree holds {{project-name}}/README.md with body    *)
(* "# {{crate_name}}", the variables are project-name = my-app and         *)
(* crate_name = my_app, the matcher is the default one.  Once walk_dir has *)
(* returned (no I/O failure injected), it returned Ok and the file lies at *)
(* my-app/README.md under the root with body "# my_app": a file whose      *)
(* rendered path names a directory that did not exist is still moved.      *)
(***************************************************************************)
ScenarioA ==
    /\ project_dir = PlainRoot
    /\ template_config = NoConfig
    /\ template.ok
    /\ Var("project-name") = "my-app"
    /\ Var("crate_name") = "my_app"
    /\ TreeIs({"readme"})

C1_FileMovedUnderRenderedDirectory ==
    (phase = "done" /\ ScenarioA /\ NoEnvFault) =>
        LET target == Join(project_dir, <<"my-app", Sep, "README.md">>)
        IN  /\ result.status = "Ok"
            /\ target \in DOMAIN files
            /\ files[target].body = <<"# ", "my_app">>

(***************************************************************************)
(* C2.  The engine walk_dir builds knows the filter names kebab_case,      *)
(* pascal_case and snake_case, each bound to its own transform; and        *)
(* Scenario B: a tree holding Cargo.toml.liquid with body                  *)
(* name = "{{crate_name | snake_case}}" and crate_name = my_app is walked  *)
(* without error and the body becomes name = "my_app".                     *)
(***************************************************************************)
ScenarioB ==
    /\ project_dir = PlainRoot
    /\ template_config = NoConfig
    /\ template.ok
    /\ Var("crate_name") = "my_app"
    /\ TreeIs({"cargo"})

C2_ThreeDistinctFilterNames ==
    /\ engine # NoFilters =>
          /\ {"kebab_case", "pascal_case", "snake_case"} \subseteq DOMAIN engine
          /\ engine["kebab_case"] = "to_kebab_case"
          /\ engine["pascal_case"] = "to_camel_case"
          /\ engine["snake_case"] = "to_snake_case"
    /\ (phase = "done" /\ ScenarioB /\ NoEnvFault) =>
          LET target == Join(project_dir, <<"Cargo.toml.liquid">>)
          IN  /\ result.status = "Ok"
              /\ target \in DOMAIN files
              /\ files[target].body = <<"name = \"", "my_app", "\"">>

(***************************************************************************)
(* C3.  After a walk that returned Ok, every regular file outside ".git"   *)
(* paths that the matcher excludes lies at the rendering of its path, with *)
(* the body it had before the walk.                                        *)
(***************************************************************************)
C3_ExcludedFileKeepsBodyAndIsRenamed ==
    WalkOk =>
        \A p \in DOMAIN files0 :
            (/\ ~is_git_metadata(p)
             /\ ~should_include(template_config, StripPrefix(p, project_dir))) =>
                LET t == Render(engine, p, template.vars)
                IN  /\ t \in DOMAIN files
                    /\ files[t] = files0[p]

(***************************************************************************)
(* C4.  At every moment of a walk, every file whose path contains ".git"   *)
(* lies where it lay before the walk with the body it had, no filesystem   *)
(* call of the walk has it as its source and no progress message names it. *)
(***************************************************************************)
C4_GitPathsUntouched ==
    \A p \in DOMAIN files0 :
        is_git_metadata(p) =>
            /\ p \in DOMAIN files
            /\ files[p] = files0[p]
            /\ \A i \in 1..Len(ops) : ops[i].src # p
            /\ p \notin Range(msgs)

(***************************************************************************)
(* C5.  Every error walk_dir returns from its loop names the path of the   *)
(* entry that raised it.                                                   *)
(***************************************************************************)
C5_ErrorNamesTheEntry == WalkErr => result.annot = cur

(***************************************************************************)
(* C7.  No file is the source of more than one successful rename or the    *)
(* target of more than one content write, and after a walk that returned   *)
(* Ok every regular file outside ".git" paths was renamed exactly once.    *)
(***************************************************************************)
C7_EachFileProcessedOnce ==
    \A p \in DOMAIN files0 :
        LET id == files0[p].id
        IN  /\ Cardinality(OpsOn("rename", id)) <= 1
            /\ Cardinality(OpsOn("write", id)) <= 1
            /\ (WalkOk /\ ~is_git_metadata(p)) => Cardinality(OpsOn("rename", id)) = 1

(***************************************************************************)
(* C8.  The target of every rename walk_dir attempts is project_dir, as    *)
(* given, followed by the rendering of the entry's path relative to it.    *)
(***************************************************************************)
C8_RootIsNeverRendered ==
    \A i \in 1..Len(ops) :
        ops[i].op = "rename" =>
            ops[i].dst = Join(project_dir,
                              Render(engine, StripPrefix(ops[i].src, project_dir),
                                     template.vars))

(***************************************************************************)
(* C10.  A walk that returned Ok lost no file: the files present after it  *)
(* are the files present before it.                                        *)
(***************************************************************************)
C10_NoFileLost ==
    WalkOk => {files[p].id : p \in DOMAIN files} = {files0[p].id : p \in DOMAIN files0}

(***************************************************************************)
(* C6.  walk_dir is fail-fast with no rollback.  Once it has returned an   *)
(* error it is over: nothing is read, written, renamed or reported after   *)
(* that, and finish_and_clear was not and is not called.  The filesystem   *)
(* is at every moment, the moment of the error included, what the          *)
(* successful writes and renames made so far produce from the tree before  *)
(* the walk: nothing committed is undone.  finish_and_clear is called at   *)
(* most once, when the iterator has no entry left, and exactly when        *)
(* walk_dir returns Ok.                                                    *)
(***************************************************************************)
C6_FailFastNoRollback ==
    /\ [](result.status = "Err" => phase = "done" /\ finished = 0)
    /\ [](files = Replay(files0, ops))
    /\ [](finished <= 1 /\ (finished = 1 <=> WalkOk))
    /\ [][result.status = "Err" => UNCHANGED <<files, ops, msgs, finished, result>>]_vars
    /\ [][finished' # finished => Normalize(stack) = <<>> /\ result.status # "Err"]_vars

\* An error on a later entry, after a write and a rename of an earlier entry
\* were committed: they are still in place.
C6_Witness ==
    /\ WalkErr
    /\ finished = 0
    /\ files # files0
    /\ \E i \in 1..Len(ops) : ops[i].op = "rename" /\ ops[i].ok /\ ops[i].src # ops[i].dst
                              /\ ops[i].src # cur /\ ops[i].dst \in DOMAIN files
    /\ \E i \in 1..Len(ops) : ops[i].op = "write" /\ ops[i].ok /\ ops[i].src # cur

(***************************************************************************)
(* C9.  Once substitute has returned: it returned an error exactly when    *)
(* get_authors failed, and then built no object; otherwise the object has  *)
(* exactly the keys project-name, crate_name, authors and username, with   *)
(* project-name the raw name under force and the kebab-case name without,  *)
(* and crate_name the snake_case name either way.  Forced, the raw name    *)
(* MyProject gives project-name MyProject and crate_name my_project.       *)
(***************************************************************************)
C9_SubstituteBuildsVariableSet ==
    phase # "start" =>
        /\ template.ok <=> authorsRes.ok
        /\ ~authorsRes.ok => /\ template = NoTemplate
                             /\ result.status = "Err"
                             /\ result.kind = "AuthorsError"
        /\ phase = "substituted" => result.status = "Ok"
        /\ authorsRes.ok =>
              /\ DOMAIN template.vars = {"project-name", "crate_name", "authors", "username"}
              /\ Var("project-name") = IF force THEN raw(name) ELSE kebab_case(name)
              /\ Var("crate_name") = snake_case(name)
              /\ Var("authors") = authorsRes.authors
              /\ Var("username") = authorsRes.username
              /\ (force /\ name = "MyProject") =>
                    Var("project-name") = "MyProject" /\ Var("crate_name") = "my_project"
              /\ (~force /\ name = "MyProject") =>
                    Var("project-name") = "my-project" /\ Var("crate_name") = "my_project"

\* Scenario E: substitute has returned for the forced raw name MyProject.
C9_Witness ==
    /\ phase = "substituted"
    /\ force
    /\ name = "MyProject"
    /\ template.ok
    /\ Var("project-name") = "MyProject"
    /\ Var("crate_name") = "my_project"

=============================================================================
